---- MODULE Spec2Model ----
(***************************************************************************)
(* Model of go/engine/pgp_export_key.go: PGPKeyExportEngine.               *)
(*                                                                         *)
(* The engine is constructed with a query type (qtype) and the query       *)
(* options (arg); Run checks the query type, loads the user, and exports   *)
(* either the user's public PGP keys that match the query or one unlocked  *)
(* secret key.  Results() returns the accumulated res slice.               *)
(*                                                                         *)
(* Strings are sequences of one-character strings.  Fingerprints and KIDs  *)
(* are sequences of nibbles; String() renders them as lower-case hex.      *)
(***************************************************************************)
EXTENDS Integers, Sequences, FiniteSets, TLC

\* ------------------------------------------------------------------ bounds
\* Largest number of active PGP keys of the user.
MaxKeys == 2
\* Largest number of Run calls made on one engine.
MaxRuns == 2

\* ------------------------------------------------------- queryType (l.15-22)
unset == "unset"
fingerprint == "fingerprint"
kid == "kid"
either == "either"
queryType == {unset, fingerprint, kid, either}

\* ------------------------------------------------------------------ errors
\* Every error value is a record [type, Msg]; Nil is Go's nil error.
Nil == [type |-> "nil", Msg |-> ""]
ConfigError == [type |-> "errorString", Msg |-> "PGPKeyExportEngine: query type not set."]
BadKeyError(m) == [type |-> "BadKeyError", Msg |-> m]
NoSecretKeyError == [type |-> "NoSecretKeyError", Msg |-> "no secret key"]
\* Failures the collaborators can report.
LoadErrors == {[type |-> "LoadError", Msg |-> "user not found"]}
StoreErrors == {NoSecretKeyError, [type |-> "CanceledError", Msg |-> "input canceled"]}
ArmorError == [type |-> "ArmorError", Msg |-> "cannot armor"]

\* ----------------------------------------------------------------- strings
HexChars == <<"0", "1", "2", "3", "4", "5", "6", "7", "8", "9", "a", "b", "c", "d", "e", "f">>
HexString(bytes) == [n \in 1..Len(bytes) |-> HexChars[bytes[n] + 1]]

LowerOf(c) ==
  CASE c = "A" -> "a" [] c = "B" -> "b" [] c = "C" -> "c"
    [] c = "D" -> "d" [] c = "E" -> "e" [] c = "F" -> "f"
    [] OTHER -> c
ToLower(s) == [n \in 1..Len(s) |-> LowerOf(s[n])]

Contains(s, p) ==
  \E off \in 0..(Len(s) - Len(p)) : SubSeq(s, off + 1, off + Len(p)) = p

\* The string-match rule of the fingerprint and KID matchers: equality when
\* exact, substring otherwise, the pattern compared case-insensitively.
StrMatch(cand, q, exact) ==
  IF exact THEN cand = ToLower(q) ELSE Contains(cand, ToLower(q))

\* ------------------------------------------------------------ key records
NilFp == <<>>
Fingerprints == {<<10, 11>>, <<12, 13>>}
Kids == {<<10>>, <<12>>}
\* One active PGP key of the user: GetFingerprintP() is fp (NilFp for a nil
\* pointer), GetKid() is kid, Encode() succeeds iff encOk.
KeyRecord == [fp : Fingerprints \cup {NilFp}, kid : Kids, encOk : BOOLEAN]

\* libkb.PgpFingerprint.String, libkb.KID.String
FpString(fp) == HexString(fp)
KidString(k) == HexString(k)
\* libkb.PgpFingerprint.Match, libkb.KID.Match
FpMatch(fp, q, exact) == fp # NilFp /\ StrMatch(FpString(fp), q, exact)
KidMatch(k, q, exact) == StrMatch(KidString(k), q, exact)
\* libkb.KeyMatchesQuery: the KID matches, or the fingerprint does.
KeyMatchesQuery(k, q, exact) ==
  KidMatch(k.kid, q, exact) \/ FpMatch(k.fp, q, exact)
\* k.Encode(): (armored public key, error)
Encode(k) ==
  IF k.encOk THEN [s |-> <<"P">> \o KidString(k.kid), err |-> Nil]
  ELSE [s |-> <<>>, err |-> [type |-> "EncodeError", Msg |-> "cannot encode"]]
\* k.VerboseDescription()
VerboseDescription(k) == <<"D">> \o KidString(k.kid)

\* Sequences over S of length at most n.
SeqsUpTo(S, n) == UNION {[1..m -> S] : m \in 0..n}

\* ---------------------------------------------------------------- queries
Queries == {<<>>, <<"a">>, <<"A", "b">>, <<"c">>}
\* keybase1.PGPQuery
PGPQuery == [Query : Queries, ExactMatch : BOOLEAN, Secret : BOOLEAN]

\* ---------------------------------------------------------------- secrets
NilKey == [nil |-> TRUE, fp |-> NilFp, isPGP |-> FALSE]
NilRaw == <<>>
NilSkb == [raw |-> NilRaw]
\* The keys the store can hand back: a GenericKey with or without a
\* fingerprint, a *PgpKeyBundle or another key type.
SecretFingerprints == {<<10, 11>>}
SecretKeys == [nil : {FALSE}, fp : SecretFingerprints \cup {NilFp}, isPGP : BOOLEAN]
\* skb.RawUnlockedKey() is raw (NilRaw when there is none).
Skbs == [raw : {NilRaw, <<"r">>}]
\* What GetSecretKeyWithPrompt can return: (key, skb, err).
StoreOutcomes ==
  [key : SecretKeys, skb : Skbs, err : {Nil}]
    \cup [key : {NilKey}, skb : {NilSkb}, err : StoreErrors]
NoStoreCall == [key |-> NilKey, skb |-> NilSkb, err |-> Nil]
\* libkb.PgpKeyRawToArmored(raw, true): (armored secret key, error)
ArmorOutcomes(raw) ==
  {[s |-> <<"S">> \o raw, err |-> Nil], [s |-> <<>>, err |-> ArmorError]}
NoArmorCall == [s |-> <<>>, err |-> Nil]

\* ------------------------------------------------------------------- users
NilUser == [nil |-> TRUE, keys |-> <<>>]
User(ks) == [nil |-> FALSE, keys |-> ks]
\* libkb.LoadMe: (user, error)
LoadOutcomes(u) ==
  {[user |-> u, err |-> Nil]} \cup {[user |-> NilUser, err |-> e] : e \in LoadErrors}
NoLoadCall == [user |-> NilUser, err |-> Nil]
\* me.GetActivePgpKeys(false)
GetActivePgpKeys(u) == u.keys

VARIABLES
  qtype,      \* e.qtype
  arg,        \* e.arg
  res,        \* e.res
  me,         \* e.me
  account,    \* the user LoadMe loads when it succeeds
  pc,         \* where Run is: idle, loadMe, branch, exportPublic, secretUnlock, secretFinish, done
  err,        \* the error Run returned (meaningful when pc = "done")
  keys,       \* exportPublic: keys
  idx,        \* exportPublic: position of the range loop (1-based)
  loadRet,    \* what LoadMe returned in this Run
  storeRet,   \* what GetSecretKeyWithPrompt returned in this Run
  armorRet,   \* what PgpKeyRawToArmored returned in this Run
  runs,       \* number of Run calls so far
  base,       \* Len(e.res) when the current Run was entered
  loadCalls,  \* calls of LoadMe in this Run
  storeCalls, \* calls of GetSecretKeyWithPrompt in this Run
  matchCalls, \* calls of a matcher in this Run
  path        \* the export path this Run has entered: none, public, secret

vars == <<qtype, arg, res, me, account, pc, err, keys, idx, loadRet, storeRet,
          armorRet, runs, base, loadCalls, storeCalls, matchCalls, path>>

\* ------------------------------------------------------------ Results, pushRes
\* Results(): the accessor returns e.res.
Results == res

\* keybase1.KeyInfo built by pushRes.
KeyInfo(fp, key, desc) == [Fingerprint |-> FpString(fp), Key |-> key, Desc |-> desc]

\* Faulty variant: the slice is overwritten instead of appended to.
pushResOverwrite(r, fp, key, desc) == <<KeyInfo(fp, key, desc)>>

pushRes(r, fp, key, desc) == Append(r, KeyInfo(fp, key, desc))

\* ------------------------------------------------------------------- Init
\* The engine right after construction.  The three constructors set qtype to
\* either, kid and fingerprint; a zero-valued struct has qtype unset.
Init ==
  /\ qtype \in queryType
  /\ arg \in PGPQuery
  /\ res = <<>>
  /\ me = NilUser
  /\ account \in {User(ks) : ks \in SeqsUpTo(KeyRecord, MaxKeys)}
  /\ pc = "idle"
  /\ err = Nil
  /\ keys = <<>>
  /\ idx = 0
  /\ loadRet = NoLoadCall
  /\ storeRet = NoStoreCall
  /\ armorRet = NoArmorCall
  /\ runs = 0
  /\ base = 0
  /\ loadCalls = 0
  /\ storeCalls = 0
  /\ matchCalls = 0
  /\ path = "none"

\* -------------------------------------------------------------------- Run
\* Faulty variant: the query type is never found unset.
SelectorUnsetNever(qt) == FALSE

\* Run, l.168: the query type check.
SelectorUnset(qt) == qt = unset

\* Run is entered (l.161-170): on an unset query type it returns at once.
RunEnter ==
  /\ pc \in {"idle", "done"}
  /\ runs < MaxRuns
  /\ runs' = runs + 1
  /\ base' = Len(res)
  /\ loadCalls' = 0
  /\ storeCalls' = 0
  /\ matchCalls' = 0
  /\ path' = "none"
  /\ loadRet' = NoLoadCall
  /\ storeRet' = NoStoreCall
  /\ armorRet' = NoArmorCall
  /\ IF SelectorUnset(qtype)
       THEN pc' = "done" /\ err' = ConfigError
       ELSE pc' = "loadMe" /\ err' = Nil
  /\ UNCHANGED <<qtype, arg, res, me, account, keys, idx>>

\* Where Run goes after loadMe returned r (l.172-174).
AfterLoad(r) == IF r.err # Nil THEN "done" ELSE "branch"

\* loadMe (l.156-159) and Run's check of its error (l.172-174).
loadMe ==
  /\ pc = "loadMe"
  /\ \E r \in LoadOutcomes(account) :
       /\ loadRet' = r
       /\ me' = r.user
       /\ err' = r.err
       /\ pc' = AfterLoad(r)
  /\ loadCalls' = loadCalls + 1
  /\ UNCHANGED <<qtype, arg, res, account, keys, idx, storeRet, armorRet, runs,
                 base, storeCalls, matchCalls, path>>

\* Faulty variant: the secret flag is ignored.
PathForPublicOnly(a) == "public"

\* Run, l.176-180: the secret flag picks the export path.
PathFor(a) == IF a.Secret THEN "secret" ELSE "public"

\* Run branches (l.176-180); exportPublic reads the active keys (l.89).
RunBranch ==
  /\ pc = "branch"
  /\ path' = PathFor(arg)
  /\ IF PathFor(arg) = "secret"
       THEN pc' = "secretUnlock" /\ UNCHANGED <<keys, idx>>
       ELSE pc' = "exportPublic" /\ keys' = GetActivePgpKeys(me) /\ idx' = 1
  /\ UNCHANGED <<qtype, arg, res, me, account, err, loadRet, storeRet, armorRet,
                 runs, base, loadCalls, storeCalls, matchCalls>>

\* ----------------------------------------------------------- exportPublic
\* Faulty variant: only the encoding error is looked at.
PublicSkipsEncodeOnly(k) == Encode(k).err # Nil

\* l.91-95: a record without a fingerprint or that fails to encode is skipped.
PublicSkips(k) == k.fp = NilFp \/ Encode(k).err # Nil

\* Faulty variant: the matcher is consulted for the empty query too.
UsesMatcherAlways(a) == TRUE

\* l.96: the matcher is consulted only for a non-empty query.
UsesMatcher(a) == Len(a.Query) > 0

\* Faulty variant: the fingerprint and kid cases are swapped.
QueryMatchSwapped(qt, a, k) ==
  CASE qt = either -> KeyMatchesQuery(k, a.Query, a.ExactMatch)
    [] qt = fingerprint -> KidMatch(k.kid, a.Query, a.ExactMatch)
    [] qt = kid -> FpMatch(k.fp, a.Query, a.ExactMatch)
    [] OTHER -> FALSE

\* l.98-105: the matcher chosen by the query type.
QueryMatch(qt, a, k) ==
  CASE qt = either -> KeyMatchesQuery(k, a.Query, a.ExactMatch)
    [] qt = fingerprint -> FpMatch(k.fp, a.Query, a.ExactMatch)
    [] qt = kid -> KidMatch(k.kid, a.Query, a.ExactMatch)
    [] OTHER -> FALSE

\* l.96-109: whether the record passes the filter.
PublicMatch(qt, a, k) == IF UsesMatcher(a) THEN QueryMatch(qt, a, k) ELSE TRUE

\* One iteration of the range loop (l.90-111).
exportPublicIter ==
  /\ pc = "exportPublic"
  /\ idx <= Len(keys)
  /\ LET k == keys[idx]
     IN  /\ IF PublicSkips(k)
              THEN UNCHANGED <<res, matchCalls>>
              ELSE /\ matchCalls' = IF UsesMatcher(arg) THEN matchCalls + 1 ELSE matchCalls
                   /\ IF PublicMatch(qtype, arg, k)
                        THEN res' = pushRes(res, k.fp, Encode(k).s, VerboseDescription(k))
                        ELSE UNCHANGED res
  /\ idx' = idx + 1
  /\ UNCHANGED <<qtype, arg, me, account, pc, err, keys, loadRet, storeRet, armorRet,
                 runs, base, loadCalls, storeCalls, path>>

\* The loop is over: exportPublic returns nil (l.112) and so does Run.
exportPublicReturn ==
  /\ pc = "exportPublic"
  /\ idx > Len(keys)
  /\ pc' = "done"
  /\ err' = Nil
  /\ keys' = <<>>
  /\ idx' = 0
  /\ UNCHANGED <<qtype, arg, res, me, account, loadRet, storeRet, armorRet, runs,
                 base, loadCalls, storeCalls, matchCalls, path>>

\* ----------------------------------------------------------- exportSecret
\* Faulty variant: every store error is absorbed.
StoreErrReturnAbsorbAll(e) == Nil

\* l.124-131: what exportSecret returns when the store reported error e.
StoreErrReturn(e) == IF e.type = "NoSecretKeyError" THEN Nil ELSE e

\* GetSecretKeyWithPrompt is called and its error handled (l.116-131).
exportSecretUnlock ==
  /\ pc = "secretUnlock"
  /\ \E o \in StoreOutcomes :
       /\ storeRet' = o
       /\ IF o.err # Nil
            THEN pc' = "done" /\ err' = StoreErrReturn(o.err)
            ELSE pc' = "secretFinish" /\ err' = Nil
  /\ storeCalls' = storeCalls + 1
  /\ UNCHANGED <<qtype, arg, res, me, account, keys, idx, loadRet, armorRet, runs,
                 base, loadCalls, matchCalls, path>>

\* Faulty variant: the raw representation is not checked.
BadKeyCheckNoRaw(key, skb) ==
  IF key.fp = NilFp THEN BadKeyError("no fingerprint found")
  ELSE IF ~key.isPGP THEN BadKeyError("Expected a PGP key")
  ELSE Nil

\* Faulty variant: the key type is checked before the fingerprint.
BadKeyCheckTypeFirst(key, skb) ==
  IF ~key.isPGP THEN BadKeyError("Expected a PGP key")
  ELSE IF key.fp = NilFp THEN BadKeyError("no fingerprint found")
  ELSE IF skb.raw = NilRaw THEN BadKeyError("can't get raw representation of key")
  ELSE Nil

\* l.132-144: the three checks of the unlocked key, in the code's order.
BadKeyCheck(key, skb) ==
  IF key.fp = NilFp THEN BadKeyError("no fingerprint found")
  ELSE IF ~key.isPGP THEN BadKeyError("Expected a PGP key")
  ELSE IF skb.raw = NilRaw THEN BadKeyError("can't get raw representation of key")
  ELSE Nil

\* Faulty variant: the KeyInfo is pushed before armoring is known to succeed.
exportSecretFinishPushFirst ==
  /\ pc = "secretFinish"
  /\ pc' = "done"
  /\ LET bad == BadKeyCheck(storeRet.key, storeRet.skb)
     IN  IF bad # Nil
           THEN err' = bad /\ UNCHANGED <<res, armorRet>>
           ELSE \E a \in ArmorOutcomes(storeRet.skb.raw) :
                  /\ armorRet' = a
                  /\ err' = a.err
                  /\ res' = pushRes(res, storeRet.key.fp, a.s, <<>>)
  /\ UNCHANGED <<qtype, arg, me, account, keys, idx, loadRet, storeRet, runs, base,
                 loadCalls, storeCalls, matchCalls, path>>

\* The key is checked, armored and pushed (l.132-153).
exportSecretFinish ==
  /\ pc = "secretFinish"
  /\ pc' = "done"
  /\ LET bad == BadKeyCheck(storeRet.key, storeRet.skb)
     IN  IF bad # Nil
           THEN err' = bad /\ UNCHANGED <<res, armorRet>>
           ELSE \E a \in ArmorOutcomes(storeRet.skb.raw) :
                  /\ armorRet' = a
                  /\ IF a.err # Nil
                       THEN err' = a.err /\ UNCHANGED res
                       ELSE err' = Nil /\ res' = pushRes(res, storeRet.key.fp, a.s, <<>>)
  /\ UNCHANGED <<qtype, arg, me, account, keys, idx, loadRet, storeRet, runs, base,
                 loadCalls, storeCalls, matchCalls, path>>

Next ==
  \/ RunEnter
  \/ loadMe
  \/ RunBranch
  \/ exportPublicIter
  \/ exportPublicReturn
  \/ exportSecretUnlock
  \/ exportSecretFinish

Spec == Init /\ [][Next]_vars

\* ================================================================ properties
\* What the current Run has appended to e.res so far.  On a fresh engine
\* (the first Run) this is all of Results().
RunRes == SubSeq(res, base + 1, Len(res))

Done == pc = "done"

\* The unlocked key passes the three checks made before it is accepted.
GoodSecretKey ==
  /\ storeRet.err = Nil
  /\ ~storeRet.key.nil
  /\ storeRet.key.fp # NilFp
  /\ storeRet.key.isPGP
  /\ storeRet.skb.raw # NilRaw

\* A public record that can be exported at all.
Exportable(k) == k.fp # NilFp /\ k.encOk

\* The matcher of the selector: the empty pattern matches every record,
\* otherwise the fingerprint, the KID or the broad key matcher decides.
SelectorMatches(k) ==
  \/ arg.Query = <<>>
  \/ qtype = fingerprint /\ FpMatch(k.fp, arg.Query, arg.ExactMatch)
  \/ qtype = kid /\ KidMatch(k.kid, arg.Query, arg.ExactMatch)
  \/ qtype = either /\ KeyMatchesQuery(k, arg.Query, arg.ExactMatch)

\* The KeyInfo a public record is exported as.
PublicInfo(k) ==
  [Fingerprint |-> HexString(k.fp), Key |-> <<"P">> \o HexString(k.kid),
   Desc |-> <<"D">> \o HexString(k.kid)]

InfosOf(ks) == [n \in 1..Len(ks) |-> PublicInfo(ks[n])]

\* The exportable, matching records of ks, in the order of ks.
Selected(ks) ==
  LET Test(k) == Exportable(k) /\ SelectorMatches(k) IN SelectSeq(ks, Test)

\* The exportable records of ks, in the order of ks.
AllExportable(ks) == SelectSeq(ks, Exportable)

\* C1: a secret export yields at most one result.  Each Run with secret=true
\* appends at most one KeyInfo, whatever the store returns, and it appends one
\* only when the store returned a key that passed the three checks and the
\* armoring succeeded; on a fresh engine Results() therefore has length 0 or 1.
C1_SecretAtMostOne ==
  (arg.Secret /\ runs >= 1) =>
    /\ Len(RunRes) \in {0, 1}
    /\ runs = 1 => Len(Results) \in {0, 1}
    /\ Len(RunRes) = 1 =>
         /\ storeCalls = 1
         /\ GoodSecretKey
         /\ armorRet = [s |-> <<"S">> \o storeRet.skb.raw, err |-> Nil]
         /\ Done /\ err = Nil

C1_Witness ==
  Done /\ arg.Secret /\ runs = 1 /\ Len(Results) = 1 /\ GoodSecretKey

\* C2: when the store reports NoSecretKeyError, Run returns nil and has
\* exported nothing (Results() is empty on a fresh engine); every other store
\* failure is returned as the error of Run.
C2_NoSecretKeyAbsorbed ==
  (Done /\ arg.Secret /\ storeCalls = 1 /\ storeRet.err # Nil) =>
    IF storeRet.err.type = "NoSecretKeyError"
      THEN err = Nil /\ RunRes = <<>> /\ (runs = 1 => Results = <<>>)
      ELSE err # Nil /\ err = storeRet.err

C2_Witness ==
  Done /\ arg.Secret /\ runs = 1 /\ storeRet.err = NoSecretKeyError /\ err = Nil
    /\ Results = <<>>

\* C3: a public export returns, in the order of the user's active keys, the
\* KeyInfos of exactly the records that have a fingerprint, encode and satisfy
\* the matcher of the selector; while the loop runs the result is that
\* selection of the records already visited.
C3_PublicSelection ==
  /\ (pc = "exportPublic") =>
       RunRes = InfosOf(Selected(SubSeq(keys, 1, idx - 1)))
  /\ (Done /\ path = "public") =>
       /\ err = Nil
       /\ RunRes = InfosOf(Selected(me.keys))
       /\ runs = 1 => Results = InfosOf(Selected(me.keys))

C3_Witness ==
  /\ Done /\ path = "public" /\ runs = 1
  /\ arg.Query # <<>>
  /\ Len(me.keys) = 2
  /\ Exportable(me.keys[1]) /\ ~SelectorMatches(me.keys[1])
  /\ Results = <<PublicInfo(me.keys[2])>>

\* C4: with the selector unset Run returns the configuration error before the
\* loader, a matcher or the key store is called, and the result stays empty;
\* with a set selector that error never occurs.
C4_UnsetFailsFast ==
  /\ (qtype = unset /\ runs >= 1) =>
       /\ Done /\ err = ConfigError
       /\ loadCalls = 0 /\ storeCalls = 0 /\ matchCalls = 0
       /\ path = "none" /\ me = NilUser
       /\ Results = <<>>
  /\ (qtype # unset) => err # ConfigError

C4_Witness == qtype = unset /\ Done /\ err = ConfigError /\ runs = MaxRuns

\* C5: when the store succeeds the checks are made in the order fingerprint,
\* PGP key, raw representation; the first that fails makes Run return the
\* BadKeyError with the message of that check, and nothing is appended.
C5_BadKeyOrder ==
  (Done /\ path = "secret" /\ storeCalls = 1 /\ storeRet.err = Nil) =>
    LET key == storeRet.key
        raw == storeRet.skb.raw
    IN  /\ key.fp = NilFp =>
             err = [type |-> "BadKeyError", Msg |-> "no fingerprint found"]
        /\ (key.fp # NilFp /\ ~key.isPGP) =>
             err = [type |-> "BadKeyError", Msg |-> "Expected a PGP key"]
        /\ (key.fp # NilFp /\ key.isPGP /\ raw = NilRaw) =>
             err = [type |-> "BadKeyError", Msg |-> "can't get raw representation of key"]
        /\ GoodSecretKey => err.type # "BadKeyError"
        /\ err.type = "BadKeyError" => RunRes = <<>>

C5_Witness ==
  /\ Done /\ path = "secret" /\ storeCalls = 1 /\ storeRet.err = Nil
  /\ storeRet.key.fp = NilFp /\ ~storeRet.key.isPGP /\ storeRet.skb.raw = NilRaw
  /\ err = BadKeyError("no fingerprint found")

\* C6: when Run returns an error it has appended nothing (Results() is empty
\* on a fresh engine) and the error is the loader's, the store's or the
\* armoring's error unchanged, a BadKeyError, or the configuration error; a
\* non-empty result goes with a nil error only.
C6_AllOrNothing ==
  /\ (Done /\ err # Nil) =>
       /\ RunRes = <<>>
       /\ runs = 1 => Results = <<>>
       /\ \/ qtype = unset /\ err = ConfigError
          \/ loadCalls = 1 /\ loadRet.err # Nil /\ err = loadRet.err
          \/ storeCalls = 1 /\ storeRet.err # Nil /\ err = storeRet.err
               /\ storeRet.err.type # "NoSecretKeyError"
          \/ storeCalls = 1 /\ storeRet.err = Nil /\ ~GoodSecretKey
               /\ err.type = "BadKeyError"
          \/ GoodSecretKey /\ armorRet.err # Nil /\ err = armorRet.err
  /\ RunRes # <<>> => err = Nil

C6_Witness ==
  Done /\ runs = 1 /\ GoodSecretKey /\ err = ArmorError /\ Results = <<>>

\* C7 as stated: a public export with an empty pattern returns a KeyInfo for
\* every active key record of the user, in order.
C7_EmptyQueryExportsAll ==
  (Done /\ path = "public" /\ arg.Query = <<>>) => RunRes = InfosOf(me.keys)

\* C7 as amended: with an empty pattern no matcher is consulted and a public
\* export returns a KeyInfo for every active key record that has a fingerprint
\* and encodes, in order; the filter accepts every such record under each of
\* the three selectors and both values of the exactness flag.
C7_EmptyQueryExportsAllExportable ==
  (Done /\ path = "public" /\ arg.Query = <<>>) =>
    /\ err = Nil
    /\ matchCalls = 0
    /\ RunRes = InfosOf(AllExportable(me.keys))
    /\ runs = 1 => Results = InfosOf(AllExportable(me.keys))
    /\ \A qt \in queryType \ {unset}, ex \in BOOLEAN, n \in 1..Len(me.keys) :
         PublicMatch(qt, [arg EXCEPT !.ExactMatch = ex], me.keys[n])

C7_Witness ==
  /\ Done /\ path = "public" /\ arg.Query = <<>> /\ arg.ExactMatch /\ runs = 1
  /\ Len(me.keys) = 2
  /\ ~Exportable(me.keys[1]) /\ Exportable(me.keys[2])
  /\ Results = <<PublicInfo(me.keys[2])>>

\* C8: on the public path a record without a fingerprint or whose encoding
\* fails contributes no KeyInfo and does not end the loop: every exported
\* KeyInfo carries a fingerprint and an encoding, the number exported is the
\* number of exportable matching records whatever else stands before them,
\* and Run returns nil.
C8_UnusableSkipped ==
  /\ path = "public" =>
       /\ err = Nil
       /\ \A n \in 1..Len(RunRes) :
            RunRes[n].Fingerprint # <<>> /\ RunRes[n].Key # <<>>
  /\ (pc = "exportPublic" /\ idx > 1 /\ ~Exportable(keys[idx - 1])) =>
       Len(RunRes) =
         Cardinality({n \in 1..(idx - 2) : Exportable(keys[n]) /\ SelectorMatches(keys[n])})
  /\ (Done /\ path = "public") =>
       Len(RunRes) =
         Cardinality({n \in 1..Len(me.keys) :
                        Exportable(me.keys[n]) /\ SelectorMatches(me.keys[n])})

C8_Witness ==
  /\ Done /\ path = "public" /\ err = Nil /\ qtype = fingerprint
  /\ Len(me.keys) = 2
  /\ me.keys[1].fp = NilFp /\ me.keys[1].encOk
  /\ Len(RunRes) = 1

\* The phases of one Run, in order.
Rank(p) ==
  CASE p = "idle" -> 0
    [] p = "loadMe" -> 1
    [] p = "branch" -> 2
    [] p = "exportPublic" -> 3
    [] p = "secretUnlock" -> 3
    [] p = "secretFinish" -> 4
    [] p = "done" -> 5

C9_Calls ==
  /\ loadCalls <= 1 /\ storeCalls <= 1
  /\ loadCalls = 1 => qtype # unset
  /\ path # "none" =>
       /\ loadCalls = 1 /\ loadRet.err = Nil
       /\ path = (IF arg.Secret THEN "secret" ELSE "public")
  /\ storeCalls = 1 => arg.Secret /\ path = "secret"
  /\ pc \in {"exportPublic"} => path = "public"
  /\ pc \in {"secretUnlock", "secretFinish"} => path = "secret"
  /\ (Done /\ err = Nil) => path # "none"
  /\ (loadCalls = 1 /\ loadRet.err # Nil) => Done /\ storeCalls = 0 /\ path = "none"
  /\ (storeCalls = 1 /\ storeRet.err # Nil) => Done

C9_Step ==
  IF runs' # runs
    THEN pc \in {"idle", "done"} /\ pc' \in {"loadMe", "done"}
    ELSE /\ Rank(pc') >= Rank(pc)
         /\ Rank(pc') = Rank(pc) => pc = "exportPublic" /\ pc' = "exportPublic"
         /\ loadCalls' \in {loadCalls, loadCalls + 1}
         /\ loadCalls' # loadCalls => pc = "loadMe"
         /\ storeCalls' \in {storeCalls, storeCalls + 1}
         /\ storeCalls' # storeCalls => pc = "secretUnlock"
         /\ path # "none" => path' = path

\* C9: each Run goes through selector check, load, one export path and done
\* in that order and never back; the loader is called at most once, the path
\* is the one the secret flag picks and is entered only after a successful
\* load, the store is called at most once and only for secret=true, and
\* nothing is called again after a failure.
C9_PhaseOrder == [](C9_Calls) /\ [][C9_Step]_vars

C9_Witness ==
  Done /\ path = "secret" /\ loadCalls = 1 /\ storeCalls = 1 /\ runs = MaxRuns

C10_StepAppends ==
  \/ res' = res
  \/ Len(res') = Len(res) + 1 /\ SubSeq(res', 1, Len(res)) = res

\* C10: e.res is empty on a freshly constructed engine and every step leaves
\* it unchanged or appends one KeyInfo at its end, so what a Run has exported
\* stays a prefix of Results() through every later Run.
C10_AppendOnly ==
  /\ [](runs = 0 => Results = <<>>)
  /\ [](base <= Len(res))
  /\ [][C10_StepAppends]_vars

C10_Witness ==
  Done /\ runs = 2 /\ base >= 1 /\ Len(Results) > base

====
